---- MODULE Spec2Model ----
(***************************************************************************)
(* A model of src/app.py, the Netflix data dashboard: the column           *)
(* normalizer coerce_numeric_columns, the aggregation count_by_year, and   *)
(* the Streamlit script that loads a CSV, maps its columns, filters it and *)
(* renders the four tabs.                                                  *)
(*                                                                         *)
(* A text is a tuple of one-character strings.  A cell of a DataFrame is a *)
(* record: NA (pandas' NaN), Txt(s) (a str object), Num(neg, ip, fr) (a    *)
(* finite number: sign, integer part, fractional digits without trailing  *)
(* zeros) or Inf(neg) (a float infinity).                                  *)
(***************************************************************************)
EXTENDS Integers, Sequences, FiniteSets, TLC

\* ------------------------------------------------------------------ bounds
\* Longest text enumerated exhaustively for the per-cell conversions.
MaxLen == 3
\* Most rows of a frame handed to coerce_numeric_columns, count_by_year or
\* tab 2.
MaxRows == 2
\* Most records of an uploaded CSV.
MaxCsvRows == 1

\* ------------------------------------------------------------------- cells
Digits == {"0", "1", "2", "3", "4", "5", "6", "7", "8", "9"}

DigitVal(c) ==
  CASE c = "0" -> 0 [] c = "1" -> 1 [] c = "2" -> 2 [] c = "3" -> 3
    [] c = "4" -> 4 [] c = "5" -> 5 [] c = "6" -> 6 [] c = "7" -> 7
    [] c = "8" -> 8 [] c = "9" -> 9

DigitChar(d) ==
  CASE d = 0 -> "0" [] d = 1 -> "1" [] d = 2 -> "2" [] d = 3 -> "3"
    [] d = 4 -> "4" [] d = 5 -> "5" [] d = 6 -> "6" [] d = 7 -> "7"
    [] d = 8 -> "8" [] d = 9 -> "9"

NA == [k |-> "na"]
Txt(s) == [k |-> "txt", s |-> s]
Inf(neg) == [k |-> "inf", neg |-> neg]
\* A finite number; zero carries no sign (-0.0 == 0.0).
Num(neg, ip, fr) ==
  [k |-> "num", neg |-> (neg /\ ~(ip = 0 /\ fr = <<>>)), ip |-> ip, fr |-> fr]
IntNum(n) == Num(n < 0, IF n < 0 THEN -n ELSE n, <<>>)

Min(S) == CHOOSE x \in S : \A y \in S : x <= y
Max(S) == CHOOSE x \in S : \A y \in S : x >= y

\* int("...") of a run of digits, left to right.
RECURSIVE DecimalValue(_)
DecimalValue(s) ==
  IF s = <<>> THEN 0
  ELSE 10 * DecimalValue(SubSeq(s, 1, Len(s) - 1)) + DigitVal(s[Len(s)])

\* str(n) for a natural number.
RECURSIVE NatToText(_)
NatToText(n) ==
  IF n < 10 THEN <<DigitChar(n)>>
  ELSE Append(NatToText(n \div 10), DigitChar(n % 10))

RECURSIVE DropTrailingZeros(_)
DropTrailingZeros(s) ==
  IF s # <<>> /\ s[Len(s)] = "0" THEN DropTrailingZeros(SubSeq(s, 1, Len(s) - 1))
  ELSE s

\* str.strip() of the blanks around a text.
Strip(s) ==
  LET idx == {i \in 1..Len(s) : s[i] # " "}
  IN  IF idx = {} THEN <<>> ELSE SubSeq(s, Min(idx), Max(idx))

\* The float a text denotes, or NA when it denotes none: blanks around it are
\* skipped, then an optional sign, then "inf", "nan", or digits with at most
\* one decimal point and at least one digit.
ParseNumber(s) ==
  LET t      == Strip(s)
      signed == t # <<>> /\ t[1] \in {"+", "-"}
      neg    == signed /\ t[1] = "-"
      body   == IF signed THEN Tail(t) ELSE t
      dots   == {i \in 1..Len(body) : body[i] = "."}
      dot    == IF dots = {} THEN Len(body) + 1 ELSE Min(dots)
      ok     == /\ \A i \in 1..Len(body) : body[i] \in Digits \cup {"."}
                /\ Cardinality(dots) <= 1
                /\ \E i \in 1..Len(body) : body[i] \in Digits
  IN  IF body = <<"i", "n", "f">> THEN Inf(neg)
      ELSE IF body = <<"n", "a", "n">> THEN NA
      ELSE IF ok
        THEN Num(neg, DecimalValue(SubSeq(body, 1, dot - 1)),
                 DropTrailingZeros(SubSeq(body, dot + 1, Len(body))))
        ELSE NA

\* pd.to_numeric(errors="coerce") with the failures turned into 0 instead.
ToNumericZeroOnFailure(c) ==
  IF c.k = "txt"
    THEN (IF ParseNumber(c.s) = NA THEN IntNum(0) ELSE ParseNumber(c.s))
    ELSE c

\* pd.to_numeric(x, errors="coerce") on one element: a number stays, a text is
\* parsed, and a text that is no number becomes NaN.
ToNumeric(c) == IF c.k = "txt" THEN ParseNumber(c.s) ELSE c

\* Series.astype(str) on one element: str(x).
AsStr(c) ==
  CASE c.k = "txt" -> c.s
    [] c.k = "na"  -> <<"n", "a", "n">>
    [] c.k = "inf" -> (IF c.neg THEN <<"-">> ELSE <<>>) \o <<"i", "n", "f">>
    [] c.k = "num" -> (IF c.neg THEN <<"-">> ELSE <<>>) \o NatToText(c.ip)
                        \o (IF c.fr = <<>> THEN <<>> ELSE <<".">> \o c.fr)

\* The end of the digit run that starts at i: the regex's + is greedy.
RECURSIVE RunEnd(_, _)
RunEnd(s, i) ==
  IF i < Len(s) /\ s[i + 1] \in Digits THEN RunEnd(s, i + 1) ELSE i

\* A scan that takes the last digit run of the text instead of the first.
ExtractLastRun(s) ==
  LET starts == {i \in 1..Len(s) :
                   s[i] \in Digits /\ (i = 1 \/ s[i - 1] \notin Digits)}
  IN  IF starts = {} THEN NA
      ELSE Txt(SubSeq(s, Max(starts), RunEnd(s, Max(starts))))

\* Series.str.extract(r"(\d+)")[0] on one text: the leftmost match of \d+, or
\* NaN when the text holds no match.
ExtractDigits(s) ==
  LET starts == {i \in 1..Len(s) : s[i] \in Digits}
  IN  IF starts = {} THEN NA
      ELSE Txt(SubSeq(s, Min(starts), RunEnd(s, Min(starts))))

\* One element of out["duration_num"].
DurationNum(c) == ToNumeric(ExtractDigits(AsStr(c)))

\* One element of out["release_year_num"].
ReleaseYearNum(c) == ToNumeric(c)
\* ------------------------------------------------------------------ frames
\* A DataFrame: n rows, the column names in order, and per column its dtype
\* ("num": a numeric dtype, "obj": object) and its n cells.
Column(dtype, v) == [dtype |-> dtype, v |-> v]

Frame(n, cols, col) == [n |-> n, cols |-> cols, col |-> col]

Columns(d) == {d.cols[i] : i \in 1..Len(d.cols)}

RECURSIVE SetToSortedSeq(_)
SetToSortedSeq(S) ==
  IF S = {} THEN <<>> ELSE <<Min(S)>> \o SetToSortedSeq(S \ {Min(S)})

\* d[name] = Column(dtype, v): d with the column replaced in place, or
\* appended after the others when d has no column of that name.
SetColumn(d, name, c) ==
  Frame(d.n,
        IF name \in Columns(d) THEN d.cols ELSE Append(d.cols, name),
        [x \in Columns(d) \cup {name} |-> IF x = name THEN c ELSE d.col[x]])

\* d[mask]: the rows of d at the positions in keep, in their order.
Rows(d, keep) ==
  LET idx == SetToSortedSeq(keep)
  IN  Frame(Len(idx), d.cols,
            [x \in Columns(d) |->
               Column(d.col[x].dtype, [i \in 1..Len(idx) |-> d.col[x].v[idx[i]]])])

\* d[names]: the columns of d named by the sequence names.
Project(d, names) ==
  Frame(d.n, names, [x \in {names[i] : i \in 1..Len(names)} |-> d.col[x]])

\* pd.to_numeric and astype over a whole column: element by element.
ToNumericSeries(v) == [i \in 1..Len(v) |-> ReleaseYearNum(v[i])]

ExtractedNumericSeries(v) == [i \in 1..Len(v) |-> DurationNum(v[i])]

\* ---------------------------------------------------- coerce_numeric_columns
\* coerce_numeric_columns(df): ret is the returned frame, arg the caller's
\* frame after the call (out = df.copy() leaves it as it was).
CoerceNumericColumns(d) ==
  LET o1 == IF "release_year" \in Columns(d)
              THEN SetColumn(d, "release_year_num",
                     Column("num", ToNumericSeries(d.col["release_year"].v)))
              ELSE d
      o2 == IF "duration" \in Columns(o1)
              THEN SetColumn(o1, "duration_num",
                     Column("num", ExtractedNumericSeries(o1.col["duration"].v)))
              ELSE o1
  IN  [ret |-> o2, arg |-> d]
\* ------------------------------------------------------------ count_by_year
PyNone == [k |-> "none"]
Movie == Txt(<<"M", "o", "v", "i", "e">>)
TVShow == Txt(<<"T", "V", " ", "S", "h", "o", "w">>)
Documentary == Txt(<<"D", "o", "c">>)
Todos == Txt(<<"T", "o", "d", "o", "s">>)

Raise(exc) == [k |-> "raise", exc |-> exc]
Series(idx, val) == [k |-> "series", idx |-> idx, val |-> val]
\* pd.Series(dtype="int64")
EmptySeries == Series(<<>>, <<>>)

IsNA(c) == c.k = "na"

\* Whether astype(int) accepts the element: a finite number, or a str that
\* int() reads (blanks, an optional sign, digits).
CastsToInt(c) ==
  \/ c.k = "num"
  \/ /\ c.k = "txt"
     /\ ParseNumber(c.s).k = "num"
     /\ \A i \in 1..Len(c.s) : c.s[i] # "."

\* astype(int) on one element: a float is truncated towards zero.
AsInt(c) ==
  LET x == ToNumeric(c) IN IF x.neg THEN -x.ip ELSE x.ip

AsInts(v) == [i \in 1..Len(v) |-> AsInt(v[i])]

\* Series.dropna(): the elements that are not NaN, in order.
DropNA(v) == SelectSeq(v, LAMBDA c : ~IsNA(c))

\* The first position of each distinct value, ascending: the order in which
\* value_counts(sort=False) lists the distinct values.
RECURSIVE FirstSeen(_)
FirstSeen(v) ==
  IF v = <<>> THEN <<>>
  ELSE LET first == FirstSeen(SubSeq(v, 1, Len(v) - 1))
           x     == v[Len(v)]
       IN  IF \E i \in 1..Len(first) : first[i] = x THEN first
           ELSE Append(first, x)

CountOf(v, x) == Cardinality({i \in 1..Len(v) : v[i] = x})

\* value_counts() left in order of first appearance, without sort_index().
ValueCountsUnsorted(v) ==
  LET idx == FirstSeen(v)
  IN  Series(idx, [i \in 1..Len(idx) |-> CountOf(v, idx[i])])

\* Series.value_counts().sort_index() of a Series of ints: the distinct
\* values ascending, each with its number of occurrences.
ValueCountsSorted(v) ==
  LET idx == SetToSortedSeq({v[i] : i \in 1..Len(v)})
  IN  Series(idx, [i \in 1..Len(idx) |-> CountOf(v, idx[i])])

\* The rows q[q["type"] == content_type] keeps.
TypeMask(d, content_type) ==
  {i \in 1..d.n : d.col["type"].v[i] = content_type}

\* A category test that knows "Movie" alone.
FiltersOnMovieOnly(content_type) == content_type = Movie

\* content_type in ("Movie", "TV Show")
FiltersOn(content_type) == content_type \in {Movie, TVShow}

\* count_by_year(df, content_type): the Series returned, or the exception
\* raised (KeyError by q["type"] on a frame without that column, ValueError
\* by astype(int) on a non-finite value).
CountByYear(d, content_type) ==
  IF FiltersOn(content_type) /\ "type" \notin Columns(d)
    THEN Raise("KeyError")
  ELSE
    LET q == IF FiltersOn(content_type)
               THEN Rows(d, TypeMask(d, content_type)) ELSE d
    IN  IF "release_year_num" \notin Columns(q) THEN EmptySeries
        ELSE LET years == DropNA(q.col["release_year_num"].v)
             IN  IF \E i \in 1..Len(years) : ~CastsToInt(years[i])
                   THEN Raise("ValueError")
                   ELSE ValueCountsSorted(AsInts(years))
\* ------------------------------------------------------------------ script
\* The selectbox entry None of the column-mapping expander.
NoColumn == "None"

\* pd.read_csv on a table of raw fields, column by column: an empty field is
\* NaN; a column whose other fields all denote numbers gets a numeric dtype;
\* any other column, and every column of a table without rows, is object.
ReadColumn(raw) ==
  LET filled == {i \in 1..Len(raw) : raw[i] # <<>>}
  IN  IF raw = <<>> THEN Column("obj", <<>>)
      ELSE IF \A i \in filled : ParseNumber(raw[i]).k \in {"num", "inf"}
        THEN Column("num", [i \in 1..Len(raw) |->
                              IF i \in filled THEN ParseNumber(raw[i]) ELSE NA])
        ELSE Column("obj", [i \in 1..Len(raw) |->
                              IF i \in filled THEN Txt(raw[i]) ELSE NA])

ReadCsv(table) ==
  Frame(table.n, table.cols, [c \in Columns(table) |-> ReadColumn(table.col[c].v)])

\* An alignment that leaves a canonical column alone once the frame has one.
AlignColumnIfMissing(d, chosen, canonical) ==
  IF chosen # NoColumn /\ chosen # canonical /\ canonical \notin Columns(d)
    THEN SetColumn(d, canonical, d.col[chosen])
    ELSE d

\* Lines 83-88, one of them: data[canonical] = data[chosen] when a column
\* is chosen and it is not the canonical one already.
AlignColumn(d, chosen, canonical) ==
  IF chosen # NoColumn /\ chosen # canonical
    THEN SetColumn(d, canonical, d.col[chosen])
    ELSE d

\* Lines 82-88: the three alignments in turn.
MapColumns(d, rc, dc, tc) ==
  AlignColumn(AlignColumn(AlignColumn(d, rc, "release_year"),
                          dc, "duration"),
              tc, "type")

\* Lines 92-95.
FilterView(d, filter) ==
  IF filter \in {Movie, TVShow} /\ "type" \in Columns(d)
    THEN Rows(d, TypeMask(d, filter))
    ELSE d

\* df.select_dtypes(include="number").columns.tolist()
NumericCols(d) == SelectSeq(d.cols, LAMBDA c : d.col[c].dtype = "num")

\* f"{x:.0f}" of half/2 for a natural number half: round half to even.
RoundHalfEven(twice) ==
  IF twice % 2 = 0 THEN twice \div 2
  ELSE LET k == (twice - 1) \div 2 IN IF k % 2 = 0 THEN k ELSE k + 1

\* np.median of a non-empty sequence of naturals, formatted with .0f.
MedianText(v) ==
  LET rank(i) == Cardinality({j \in 1..Len(v) :
                    v[j] < v[i] \/ (v[j] = v[i] /\ j < i)}) + 1
      at(r)   == v[CHOOSE i \in 1..Len(v) : rank(i) = r]
      n       == Len(v)
  IN  IF n % 2 = 1 THEN at((n + 1) \div 2)
      ELSE RoundHalfEven(at(n \div 2) + at(n \div 2 + 1))

\* Lines 100-121: the three metrics, or the exception int() raises on an
\* infinite year.
Kpis(view) ==
  LET years == IF "release_year_num" \in Columns(view)
                 THEN DropNA(view.col["release_year_num"].v) ELSE <<>>
      d     == IF "duration_num" \in Columns(view)
                 THEN DropNA(view.col["duration_num"].v) ELSE <<>>
      ints  == {AsInt(years[i]) : i \in 1..Len(years)}
  IN  IF \E i \in 1..Len(years) : years[i].k # "num"
        THEN Raise("OverflowError")
        ELSE [k        |-> "metrics",
              total    |-> view.n,
              years    |-> IF years = <<>> THEN <<>> ELSE <<Min(ints), Max(ints)>>,
              duration |-> IF d = <<>> THEN <<>>
                             ELSE <<MedianText(AsInts(d))>>]

\* DataFrame.dropna(): the rows without a NaN in any column.
CompleteRows(d) ==
  {i \in 1..d.n : \A c \in Columns(d) : ~IsNA(d.col[c].v[i])}

\* One step of the pseudo-random generator.
NextRng(s) == (3 * s + 1) % 7

RngStates == 0..6

\* RandomState.choice(len(pool), size=k, replace=False) from state s: the
\* positions drawn, in the order drawn, and the state left behind.
RECURSIVE Choice(_, _, _)
Choice(pool, k, s) ==
  IF k = 0 THEN [locs |-> <<>>, s |-> s]
  ELSE LET s1   == NextRng(s)
           j    == (s1 % Len(pool)) + 1
           rest == Choice(SubSeq(pool, 1, j - 1) \o SubSeq(pool, j + 1, Len(pool)),
                          k - 1, s1)
       IN  [locs |-> <<pool[j]>> \o rest.locs, s |-> rest.s]

\* d.take(locs)
Take(d, locs) ==
  Frame(Len(locs), d.cols,
        [c \in Columns(d) |->
           Column(d.col[c].dtype, [i \in 1..Len(locs) |-> d.col[c].v[locs[i]]])])

\* The seed of line 158.
Seed == 42

\* plot_df.sample(n) drawing from numpy's global generator (random_state=None).
SampleFromGlobal(d, n, np) ==
  LET c == Choice([i \in 1..d.n |-> i], n, np)
  IN  [ret |-> Take(d, c.locs), np |-> c.s]

\* plot_df.sample(n, random_state=42): a generator of its own, seeded anew at
\* every call; numpy's global generator np is left alone.
Sample(d, n, np) ==
  LET c == Choice([i \in 1..d.n |-> i], n, Seed % Cardinality(RngStates))
  IN  [ret |-> Take(d, c.locs), np |-> np]

\* Lines 156-158: the bounded sample for the pairplot.
BoundedSample(view, selected, cap, np) ==
  LET picked   == Project(view, selected)
      complete == Rows(picked, CompleteRows(picked))
  IN  IF complete.n > cap THEN Sample(complete, cap, np)
      ELSE [ret |-> complete, np |-> np]

\* The numeric columns without dropna(axis=1, how="all").
NumericDfKeepingAllMissing(view) == Project(view, NumericCols(view))

\* select_dtypes(include="number").dropna(axis=1, how="all"): the numeric
\* columns that hold at least one value.
NumericDf(view) ==
  Project(view, SelectSeq(NumericCols(view),
                          LAMBDA c : \E i \in 1..view.n : ~IsNA(view.col[c].v[i])))

\* DataFrame.empty: no rows or no columns.
IsEmpty(d) == d.n = 0 \/ d.cols = <<>>

\* ------------------------------------------------------------------- state
VARIABLES
  pc,              \* where the run stands
  cell,            \* one element of a source column
  year_num,        \* its element of release_year_num
  duration_num,    \* its element of duration_num
  uploaded,        \* the file_uploader's value: None or a file
  content_filter,  \* the "Filtrar por tipo" selectbox
  pairplot_rows,   \* the pairplot slider
  release_col,     \* the three selectboxes of the mapping expander
  duration_col,
  type_col,
  data,            \* the frame read from the CSV (coerce's argument)
  df,              \* df = coerce_numeric_columns(data)
  df_view,         \* df filtered by content_filter (count_by_year's argument)
  metrics,         \* the three KPIs
  content_type,    \* count_by_year's second argument
  counts,          \* what count_by_year returned or raised
  sel,             \* the multiselect of tab 2
  plot_df,         \* the frame handed to the plot
  corr,            \* the columns of the correlation matrix, once computed
  shown,           \* the notices shown so far
  np_global,       \* the state of numpy's global generator
  last_plot,       \* plot_df of the run before
  runs             \* how many times tab 2 has run

harness == <<cell, year_num, duration_num, content_type, last_plot, runs>>
widgets == <<uploaded, content_filter, pairplot_rows>>
mapping == <<release_col, duration_col, type_col>>

vars ==
  <<pc, cell, year_num, duration_num, uploaded, content_filter, pairplot_rows,
    release_col, duration_col, type_col, data, df, df_view, metrics,
    content_type, counts, sel, plot_df, corr, shown, np_global, last_plot, runs>>

\* ------------------------------------------------------------------ inputs
\* The slider of line 52 (200 to 5000 in steps of 100), scaled to the frames
\* enumerated here.
SliderMax == 2
SliderValues == 1..SliderMax
\* How many times the script is run on the same input.
MaxRuns == 2

Alphabet == {"0", "1", "9", "a", " ", ".", "-", "+"}

\* The texts of k characters.
Texts(k) == [1..k -> Alphabet]

Example90Min == <<"9", "0", " ", "m", "i", "n">>
Example3Seasons == <<"3", " ", "S", "e", "a", "s", "o", "n", "s">>
ExampleSeason3 ==
  <<"S", "e", "a", "s", "o", "n", " ", "3", ":", " ", "1", "0", " ",
    "E", "p", "i", "s", "o", "d", "e", "s">>
ExampleTexts ==
  {Example90Min, Example3Seasons, ExampleSeason3, <<"a", "b", "c">>,
   <<"i", "n", "f">>, <<"-", "i", "n", "f">>, <<"n", "a", "n">>,
   <<"2", "0", "1", "8">>, <<"0", "0", "7", "x", "1">>}

\* Elements of a source column that are no str: NaN and numbers.
OtherInputs == {NA, IntNum(90), IntNum(-5), Num(FALSE, 1, <<"5">>), Inf(FALSE)}

Absent == [dtype |-> "absent"]

DtypeOf(v) ==
  IF v # <<>> /\ \A i \in 1..Len(v) : v[i].k \in {"num", "na", "inf"}
    THEN "num" ELSE "obj"

\* The columns of n cells over a set of cells, or no column at all.
ColumnChoices(cells, n) ==
  {Absent} \cup {Column(DtypeOf(v), v) : v \in [1..n -> cells]}

\* The frame of n rows with the columns r gives, in the order given.
FrameOf(n, order, r) ==
  LET present == SelectSeq(order, LAMBDA c : r[c] # Absent)
  IN  Frame(n, present, [c \in {present[i] : i \in 1..Len(present)} |-> r[c]])

YearCells == {NA, Txt(<<"7">>), Txt(<<"a">>), Txt(<<"0">>)}
DurationCells == {NA, Txt(<<"2", " ", "a">>), Txt(<<"a">>), IntNum(9)}
OtherCells == {NA, Txt(<<"x">>)}

\* The frames handed to coerce_numeric_columns: any of a release_year, a
\* duration and an unrelated column that happens to be named duration_num.
CoerceInputs(n) ==
  {FrameOf(n, <<"release_year", "duration", "duration_num">>, r) :
     r \in [release_year : ColumnChoices(YearCells, n),
            duration     : ColumnChoices(DurationCells, n),
            duration_num : ColumnChoices(OtherCells, n)]}

YearNumCells ==
  {NA, IntNum(1), IntNum(2), Num(FALSE, 1, <<"5">>), Inf(FALSE)}
TypeCells == {Movie, TVShow, Documentary}

\* The frames handed to count_by_year: normalized or not, typed or not.
CountInputs(n) ==
  {FrameOf(n, <<"type", "release_year_num">>, r) :
     r \in [type             : ColumnChoices(TypeCells, n),
            release_year_num : ColumnChoices(YearNumCells, n)]}

ContentTypes == {PyNone, Movie, TVShow, Documentary}

SampleCells == {NA, IntNum(1), IntNum(2)}

\* The views tab 2 samples from: two derived columns and a title.
SampleInputs(n) ==
  {FrameOf(n, <<"title", "release_year_num", "duration_num">>, r) :
     r \in [title            : {Absent, Column("obj", [i \in 1..n |-> Txt(<<"x">>)])},
            release_year_num : ColumnChoices(SampleCells, n) \ {Absent},
            duration_num     : ColumnChoices(SampleCells, n)]}

RawColumnChoices(fields, n) ==
  {Absent} \cup {Column("raw", v) : v \in [1..n -> fields]}

RawYears == {<<"1">>, <<"a">>}
RawDurations == {<<"3", " ", "b">>, <<"c">>}
RawTypes == {Movie.s, TVShow.s}

\* The tables a readable CSV of n records holds: a header of one to three
\* of the canonical columns.
CsvTables(n) ==
  {FrameOf(n, <<"release_year", "duration", "type">>, r) :
     r \in [release_year : RawColumnChoices(RawYears, n),
            duration     : RawColumnChoices(RawDurations, n),
            type         : RawColumnChoices(RawTypes, n)]} \ {Frame(n, <<>>, <<>>)}

UnreadableFile == [k |-> "file", readable |-> FALSE]
CsvFile(t) == [k |-> "file", readable |-> TRUE, table |-> t]

Selected(s) == [k |-> "selection", cols |-> s]

\* The sub-sequences of a sequence: what a multiselect over it can return.
Selections(options) ==
  {Selected(SelectSeq(options, LAMBDA c : c \in S)) :
     S \in SUBSET {options[i] : i \in 1..Len(options)}}

\* ----------------------------------------------------------------- actions
\* Lines 25 and 28-29 on one element of the source column.
Convert ==
  /\ pc = "convert"
  /\ year_num' = ReleaseYearNum(cell)
  /\ duration_num' = DurationNum(cell)
  /\ pc' = "converted"
  /\ UNCHANGED <<cell, content_type, last_plot, runs, widgets, mapping, data, df,
                 df_view, metrics, counts, sel, plot_df, corr, shown, np_global>>

\* Lines 61-63: without an upload, a warning and st.stop().
Start ==
  /\ pc = "start"
  /\ IF uploaded = PyNone
       THEN /\ shown' = shown \cup {"warning: Sube un CSV para comenzar"}
            /\ pc' = "stopped"
       ELSE /\ shown' = shown
            /\ pc' = "load"
  /\ UNCHANGED <<harness, widgets, mapping, data, df, df_view, metrics, counts,
                 sel, plot_df, corr, np_global>>

\* Lines 65-69 without the st.stop() of line 69: the run goes on.
LoadWithoutStop ==
  /\ pc = "load"
  /\ IF uploaded.readable
       THEN /\ data' = ReadCsv(uploaded.table)
            /\ shown' = shown
       ELSE /\ data' = data
            /\ shown' = shown \cup {"error: No se pudo leer el CSV"}
  /\ pc' = "map"
  /\ UNCHANGED <<harness, widgets, mapping, df, df_view, metrics, counts,
                 sel, plot_df, corr, np_global>>

\* Lines 65-69: data = load_csv(uploaded), or the error and st.stop().
Load ==
  /\ pc = "load"
  /\ IF uploaded.readable
       THEN /\ data' = ReadCsv(uploaded.table)
            /\ shown' = shown
            /\ pc' = "map"
       ELSE /\ data' = data
            /\ shown' = shown \cup {"error: No se pudo leer el CSV"}
            /\ pc' = "stopped"
  /\ UNCHANGED <<harness, widgets, mapping, df, df_view, metrics, counts,
                 sel, plot_df, corr, np_global>>

\* Lines 71-88: the three selectboxes offer None and every column of data;
\* the chosen columns are copied to the canonical names.
Map ==
  /\ pc = "map"
  /\ \E rc \in {NoColumn} \cup Columns(data) :
     \E dc \in {NoColumn} \cup Columns(data) :
     \E tc \in {NoColumn} \cup Columns(data) :
       /\ release_col' = rc /\ duration_col' = dc /\ type_col' = tc
       /\ data' = MapColumns(data, rc, dc, tc)
  /\ pc' = "coerce"
  /\ UNCHANGED <<harness, widgets, df, df_view, metrics, counts, sel, plot_df,
                 corr, shown, np_global>>

\* Line 90: df = coerce_numeric_columns(data).
Coerce ==
  /\ pc = "coerce"
  /\ LET r == CoerceNumericColumns(data)
     IN  df' = r.ret /\ data' = r.arg
  /\ pc' = "filter"
  /\ UNCHANGED <<harness, widgets, mapping, df_view, metrics, counts, sel,
                 plot_df, corr, shown, np_global>>

\* Lines 92-95.
Filter ==
  /\ pc = "filter"
  /\ df_view' = FilterView(df, content_filter)
  /\ pc' = "kpi"
  /\ UNCHANGED <<harness, widgets, mapping, data, df, metrics, counts, sel,
                 plot_df, corr, shown, np_global>>

\* Lines 100-121; an exception nobody catches ends the run.
Kpi ==
  /\ pc = "kpi"
  /\ LET m == Kpis(df_view)
     IN  IF m.k = "raise"
           THEN /\ metrics' = metrics
                /\ shown' = shown \cup {"exception"}
                /\ pc' = "crashed"
           ELSE /\ metrics' = m
                /\ shown' = shown
                /\ pc' = "tab1"
  /\ UNCHANGED <<harness, widgets, mapping, data, df, df_view, counts, sel,
                 plot_df, corr, np_global>>

\* Lines 130-140.
Tab1 ==
  /\ pc = "tab1"
  /\ LET c == CountByYear(df_view,
                IF content_filter = Todos THEN PyNone ELSE content_filter)
     IN  /\ counts' = c
         /\ IF c.k = "raise"
              THEN shown' = shown \cup {"exception"} /\ pc' = "crashed"
              ELSE /\ pc' = "tab2"
                   /\ shown' = IF c = EmptySeries
                                 THEN shown \cup {"info: No hay datos suficientes"}
                                 ELSE shown
  /\ UNCHANGED <<harness, widgets, mapping, data, df, df_view, metrics, sel,
                 plot_df, corr, np_global>>

\* Lines 145-161: the multiselect returns what the user selected, or its
\* default (the first four numeric columns) while sel is None.
Tab2 ==
  /\ pc = "tab2"
  /\ LET numeric_cols == NumericCols(df_view)
     IN  IF numeric_cols = <<>>
           THEN /\ shown' = shown \cup {"info: No hay columnas numericas"}
                /\ UNCHANGED <<sel, plot_df, np_global>>
           ELSE LET s == IF sel = PyNone
                             THEN SubSeq(numeric_cols, 1, Min({4, Len(numeric_cols)}))
                             ELSE sel.cols
                IN
                  /\ sel' = Selected(s)
                  /\ IF Len(s) < 2
                       THEN /\ shown' = shown \cup {"info: Selecciona al menos dos columnas"}
                            /\ UNCHANGED <<plot_df, np_global>>
                       ELSE LET r == BoundedSample(df_view, s, pairplot_rows, np_global)
                            IN  /\ plot_df' = r.ret
                                /\ np_global' = r.np
                                /\ shown' = shown
  /\ pc' = "tab3"
  /\ UNCHANGED <<harness, widgets, mapping, data, df, df_view, metrics, counts, corr>>

\* Lines 166-175.
Tab3 ==
  /\ pc = "tab3"
  /\ LET numeric_df == NumericDf(df_view)
     IN  IF IsEmpty(numeric_df) \/ Len(numeric_df.cols) < 2
           THEN /\ shown' = shown \cup {"info: No hay suficientes columnas numericas"}
                /\ corr' = corr
           ELSE /\ corr' = [k |-> "corr", cols |-> numeric_df.cols]
                /\ shown' = shown
  /\ pc' = "tab4"
  /\ UNCHANGED <<harness, widgets, mapping, data, df, df_view, metrics, counts,
                 sel, plot_df, np_global>>

\* Lines 180-201.
Tab4 ==
  /\ pc = "tab4"
  /\ IF "release_year_num" \notin Columns(df_view)
       THEN /\ shown' = shown \cup {"info: No existe release_year_num"}
            /\ plot_df' = plot_df
       ELSE LET numeric_cols ==
                  SelectSeq(NumericCols(df_view), LAMBDA c : c # "release_year_num")
            IN  IF numeric_cols = <<>>
                  THEN /\ shown' = shown \cup {"info: No hay columnas numericas para comparar"}
                       /\ plot_df' = plot_df
                  ELSE \E i \in 1..Len(numeric_cols) :
                         LET picked == Project(df_view,
                                         <<"release_year_num", numeric_cols[i]>>)
                             p      == Rows(picked, CompleteRows(picked))
                         IN  /\ plot_df' = p
                             /\ shown' = IF IsEmpty(p)
                                           THEN shown \cup {"info: No hay datos suficientes para graficar"}
                                           ELSE shown
  /\ pc' = "done"
  /\ UNCHANGED <<harness, widgets, mapping, data, df, df_view, metrics, counts,
                 sel, corr, np_global>>

\* A call count_by_year(df_view, content_type).
CallCountByYear ==
  /\ pc = "call"
  /\ counts' = CountByYear(df_view, content_type)
  /\ pc' = "returned"
  /\ UNCHANGED <<cell, year_num, duration_num, content_type, last_plot, runs,
                 widgets, mapping, data, df, df_view, metrics, sel, plot_df,
                 corr, shown, np_global>>

\* The script is run again on the same input: tab 2 comes round with the
\* plot of the run before remembered.
Rerun ==
  /\ pc = "tab3"
  /\ runs < MaxRuns
  /\ runs' = runs + 1
  /\ pc' = "tab2"
  /\ last_plot' = plot_df
  /\ plot_df' = PyNone
  /\ UNCHANGED <<cell, year_num, duration_num, content_type, widgets,
                 mapping, data, df, df_view, metrics, counts, sel, corr, shown,
                 np_global>>

\* ---------------------------------------------------------- specifications
InitText ==
  /\ pc = "convert"
  /\ \/ cell \in OtherInputs
     \/ \E s \in ExampleTexts : cell = Txt(s)
     \/ \E k \in 0..MaxLen : \E s \in Texts(k) : cell = Txt(s)
  /\ year_num = PyNone /\ duration_num = PyNone /\ uploaded = PyNone
  /\ content_filter = PyNone /\ pairplot_rows = PyNone /\ release_col = NoColumn
  /\ duration_col = NoColumn /\ type_col = NoColumn /\ data = PyNone
  /\ df = PyNone /\ df_view = PyNone /\ metrics = PyNone
  /\ content_type = PyNone /\ counts = PyNone /\ sel = PyNone
  /\ plot_df = PyNone /\ corr = PyNone /\ np_global = PyNone
  /\ last_plot = PyNone /\ runs = 1
  /\ shown = {}

\* The per-element conversions on every bounded text.
SpecText == InitText /\ [][Convert]_vars

InitCoerce ==
  /\ pc = "coerce"
  /\ \E n \in 0..MaxRows : data \in CoerceInputs(n)
  /\ cell = PyNone /\ year_num = PyNone /\ duration_num = PyNone
  /\ uploaded = PyNone /\ content_filter = PyNone /\ pairplot_rows = PyNone
  /\ release_col = NoColumn /\ duration_col = NoColumn /\ type_col = NoColumn
  /\ df = PyNone /\ df_view = PyNone /\ metrics = PyNone
  /\ content_type = PyNone /\ counts = PyNone /\ sel = PyNone
  /\ plot_df = PyNone /\ corr = PyNone /\ np_global = PyNone
  /\ last_plot = PyNone /\ runs = 1
  /\ shown = {}

\* coerce_numeric_columns on every bounded frame.
SpecCoerce == InitCoerce /\ [][Coerce]_vars

InitCount ==
  /\ pc = "call"
  /\ \E n \in 0..MaxRows : df_view \in CountInputs(n)
  /\ content_type \in ContentTypes
  /\ cell = PyNone /\ year_num = PyNone /\ duration_num = PyNone
  /\ uploaded = PyNone /\ content_filter = PyNone /\ pairplot_rows = PyNone
  /\ release_col = NoColumn /\ duration_col = NoColumn /\ type_col = NoColumn
  /\ data = PyNone /\ df = PyNone /\ metrics = PyNone
  /\ counts = PyNone /\ sel = PyNone /\ plot_df = PyNone
  /\ corr = PyNone /\ np_global = PyNone /\ last_plot = PyNone
  /\ runs = 1
  /\ shown = {}

\* count_by_year on every bounded frame and category.
SpecCount == InitCount /\ [][CallCountByYear]_vars

InitSample ==
  /\ pc = "tab2"
  /\ \E n \in 0..MaxRows : df_view \in SampleInputs(n)
  /\ pairplot_rows \in SliderValues
  /\ np_global \in RngStates
  /\ sel \in {PyNone} \cup Selections(NumericCols(df_view))
  /\ runs = 1
  /\ cell = PyNone /\ year_num = PyNone /\ duration_num = PyNone
  /\ uploaded = PyNone /\ content_filter = PyNone /\ release_col = NoColumn
  /\ duration_col = NoColumn /\ type_col = NoColumn /\ data = PyNone
  /\ df = PyNone /\ metrics = PyNone /\ content_type = PyNone
  /\ counts = PyNone /\ plot_df = PyNone
  /\ corr = PyNone /\ last_plot = PyNone
  /\ shown = {}

\* Tab 2 run and run again on every bounded view, selection and slider value.
SpecSample == InitSample /\ [][Tab2 \/ Rerun]_vars

Init ==
  /\ pc = "start"
  /\ \/ uploaded \in {PyNone, UnreadableFile}
     \/ \E n \in 0..MaxCsvRows : \E t \in CsvTables(n) : uploaded = CsvFile(t)
  /\ content_filter \in {Todos, Movie, TVShow}
  /\ pairplot_rows \in SliderValues
  /\ np_global = 0
  /\ cell = PyNone /\ year_num = PyNone /\ duration_num = PyNone
  /\ release_col = NoColumn /\ duration_col = NoColumn /\ type_col = NoColumn
  /\ data = PyNone /\ df = PyNone /\ df_view = PyNone
  /\ metrics = PyNone /\ content_type = PyNone /\ counts = PyNone
  /\ sel = PyNone /\ plot_df = PyNone /\ corr = PyNone
  /\ last_plot = PyNone /\ runs = 1
  /\ shown = {}

Next ==
  \/ Start \/ Load \/ Map \/ Coerce \/ Filter \/ Kpi
  \/ Tab1 \/ Tab2 \/ Tab3 \/ Tab4

\* One run of the script on every bounded upload and widget setting.
Spec == Init /\ [][Next]_vars

\* ================================================================== claims
IsDigitAt(s, i) == s[i] \in Digits

\* The run s[i..j] is the first maximal run of decimal digits of s.
IsFirstMaxRun(s, i, j) ==
  /\ 1 <= i /\ i <= j /\ j <= Len(s)
  /\ \A m \in i..j : IsDigitAt(s, m)
  /\ \A m \in 1..(i - 1) : ~IsDigitAt(s, m)
  /\ j = Len(s) \/ ~IsDigitAt(s, j + 1)

RECURSIVE Pow10(_)
Pow10(e) == IF e = 0 THEN 1 ELSE 10 * Pow10(e - 1)

\* s[i..j] read as a base-10 integer: the sum of digit * 10^position.
RECURSIVE Base10(_, _, _)
Base10(s, i, j) ==
  IF i > j THEN 0 ELSE DigitVal(s[i]) * Pow10(j - i) + Base10(s, i + 1, j)

\* C1: for every duration value, duration_num is the first maximal run of
\* decimal digits of the value's text read as a base-10 integer, and the
\* missing marker when the text holds no digit.
C1_DurationIsFirstDigitRun ==
  pc = "converted" =>
    LET s == AsStr(cell)
    IN  IF \E i \in 1..Len(s) : IsDigitAt(s, i)
          THEN \E i \in 1..Len(s) : \E j \in i..Len(s) :
                 /\ IsFirstMaxRun(s, i, j)
                 /\ duration_num = IntNum(Base10(s, i, j))
          ELSE duration_num = NA

\* "Season 3: 10 Episodes" has been converted, to 3.
C1_Witness ==
  /\ pc = "converted"
  /\ cell = Txt(ExampleSeason3)
  /\ duration_num = IntNum(3)

\* The rows of df_view that survive the category filter of the call.
Survivors ==
  {i \in 1..df_view.n :
     content_type \in {Movie, TVShow} => df_view.col["type"].v[i] = content_type}

HasYear(i) ==
  /\ "release_year_num" \in Columns(df_view)
  /\ df_view.col["release_year_num"].v[i] # NA

RECURSIVE SumSeq(_)
SumSeq(v) == IF v = <<>> THEN 0 ELSE v[1] + SumSeq(Tail(v))

\* C2: whenever count_by_year returns, its years are strictly ascending (so
\* no year twice) and its counts add up to the number of rows that survive
\* the category filter and have a non-missing derived year.
C2_AscendingAndComplete ==
  (pc = "returned" /\ counts.k = "series") =>
    /\ Len(counts.idx) = Len(counts.val)
    /\ \A i \in 1..(Len(counts.idx) - 1) : counts.idx[i] < counts.idx[i + 1]
    /\ SumSeq(counts.val) = Cardinality({i \in Survivors : HasYear(i)})

\* Two rows given in descending year order were counted, one per year.
C2_Witness ==
  /\ pc = "returned"
  /\ counts = Series(<<1, 2>>, <<1, 1>>)
  /\ df_view.col["release_year_num"].v[1] = IntNum(2)

\* C4: count_by_year never raises; with the derived year column absent or
\* with no row surviving the filter (also when a category is given and the
\* frame has no type column) it returns an empty result.
C4_NeverRaises ==
  pc = "returned" =>
    /\ counts.k = "series"
    /\ ("release_year_num" \notin Columns(df_view)
          \/ (content_type \in {Movie, TVShow} /\ "type" \notin Columns(df_view)))
         => counts = EmptySeries

\* The number of rows of R whose derived year truncates to y.
Tally(R, y) ==
  Cardinality({i \in R : HasYear(i)
                 /\ AsInt(df_view.col["release_year_num"].v[i]) = y})

\* counts is the tally of exactly the rows R.
CountsRows(R) ==
  /\ \A j \in 1..Len(counts.idx) : counts.val[j] = Tally(R, counts.idx[j])
  /\ \A i \in R : HasYear(i) =>
       \E j \in 1..Len(counts.idx) :
         counts.idx[j] = AsInt(df_view.col["release_year_num"].v[i])

\* C6 as stated: any category given restricts the count to the rows whose
\* type equals it; no category counts all rows.
C6_AnyCategoryFilters ==
  (pc = "returned" /\ counts.k = "series" /\ "type" \in Columns(df_view)) =>
    IF content_type = PyNone
      THEN CountsRows(1..df_view.n)
      ELSE CountsRows({i \in 1..df_view.n :
                         df_view.col["type"].v[i] = content_type})

\* C6 amended: the categories "Movie" and "TV Show" restrict the count to the
\* rows whose type equals the category; any other value, like no category,
\* counts all rows.
C6_MovieAndTVShowFilter ==
  (pc = "returned" /\ counts.k = "series") =>
    IF content_type \in {Movie, TVShow}
      THEN /\ "type" \in Columns(df_view)
           /\ CountsRows({i \in 1..df_view.n :
                            df_view.col["type"].v[i] = content_type})
      ELSE CountsRows(1..df_view.n)

\* A call with "TV Show" counted one of two rows.
C6_Witness ==
  /\ pc = "returned"
  /\ content_type = TVShow
  /\ df_view.n = 2
  /\ "type" \in Columns(df_view)
  /\ df_view.col["type"].v = <<Movie, TVShow>>
  /\ counts = Series(<<2>>, <<1>>)
\* C3: coerce_numeric_columns leaves the caller's frame as it was, and every
\* column of the input is in the output with the values it had.
C3_NonDestructive ==
  [][(pc = "coerce" /\ pc' = "filter") =>
       /\ data' = data
       /\ \A c \in Columns(data) :
            c \in Columns(df') /\ df'.col[c].v = data.col[c].v]_vars

\* The body of a numeral: digits with at most one decimal point among them.
NumeralBody(b) ==
  /\ \E i \in 1..Len(b) : IsDigitAt(b, i)
  /\ \E p \in 0..Len(b) :
       /\ \A i \in 1..p : IsDigitAt(b, i)
       /\ p = Len(b) \/ (b[p + 1] = "." /\ \A i \in (p + 2)..Len(b) : IsDigitAt(b, i))

\* The text reads as a number: blanks, an optional sign, a numeral or inf,
\* blanks.
IsNumeral(s) ==
  \E i \in 1..Len(s) : \E j \in i..Len(s) :
    /\ \A m \in 1..(i - 1) : s[m] = " "
    /\ \A m \in (j + 1)..Len(s) : s[m] = " "
    /\ LET t == SubSeq(s, i, j)
           u == IF t[1] \in {"+", "-"} THEN Tail(t) ELSE t
       IN  NumeralBody(u) \/ u = <<"i", "n", "f">>

\* The element of release_year cannot be parsed as a number.
YearUnparseable(c) == c.k = "na" \/ (c.k = "txt" /\ ~IsNumeral(c.s))

\* The element of duration holds no number to extract.
DurationUnparseable(c) ==
  c.k = "na" \/ (c.k = "txt" /\ \A i \in 1..Len(c.s) : ~IsDigitAt(c.s, i))

\* The derived column is in df with one entry per row of data.
OnePerRow(derived) ==
  derived \in Columns(df) /\ Len(df.col[derived].v) = data.n

\* C7: each derived column has one entry per row of the source frame, and
\* the entry of a source value that cannot be parsed as a number is the
\* missing marker (so never zero).
C7_OnePerRowMissingOnFailure ==
  pc = "filter" =>
    /\ "release_year" \in Columns(data) =>
         /\ OnePerRow("release_year_num")
         /\ \A i \in 1..data.n :
              YearUnparseable(data.col["release_year"].v[i])
                => df.col["release_year_num"].v[i] = NA
    /\ "duration" \in Columns(data) =>
         /\ OnePerRow("duration_num")
         /\ \A i \in 1..data.n :
              DurationUnparseable(data.col["duration"].v[i])
                => df.col["duration_num"].v[i] = NA

\* A year that is no number was coerced next to a year that is zero.
C7_Witness ==
  /\ pc = "filter"
  /\ "release_year" \in Columns(data)
  /\ data.col["release_year"].v = <<Txt(<<"a">>), Txt(<<"0">>)>>
  /\ df.col["release_year_num"].v = <<NA, IntNum(0)>>
  /\ "duration" \in Columns(data)
  /\ data.col["duration"].v = <<Txt(<<"a">>), Txt(<<"2", " ", "a">>)>>

\* The positions of df_view whose selected columns hold no missing value.
SelectedComplete ==
  {i \in 1..df_view.n :
     \A m \in 1..Len(sel.cols) : df_view.col[sel.cols[m]].v[i] # NA}

\* Row j of plot_df is row i of df_view on the selected columns.
SameRow(j, i) ==
  \A m \in 1..Len(sel.cols) :
    plot_df.col[sel.cols[m]].v[j] = df_view.col[sel.cols[m]].v[i]

\* C5: the pairplot sample holds only rows complete in the selected columns,
\* never more than pairplot_rows of them: exactly pairplot_rows when more
\* complete rows exist, else all of them in order; and a second run on the
\* same input with the same seed returns the same sample.
C5_BoundedDeterministicSample ==
  (pc = "tab3" /\ sel # PyNone /\ plot_df # PyNone) =>
    /\ plot_df.cols = sel.cols
    /\ \A j \in 1..plot_df.n : \E i \in SelectedComplete : SameRow(j, i)
    /\ plot_df.n <= pairplot_rows
    /\ plot_df.n = IF Cardinality(SelectedComplete) > pairplot_rows
                     THEN pairplot_rows ELSE Cardinality(SelectedComplete)
    /\ Cardinality(SelectedComplete) <= pairplot_rows =>
         LET idx == SetToSortedSeq(SelectedComplete)
         IN  \A j \in 1..plot_df.n : SameRow(j, idx[j])
    /\ runs >= 2 => plot_df = last_plot

\* A second run sampled pairplot_rows rows out of more complete ones.
C5_Witness ==
  /\ pc = "tab3"
  /\ runs = 2
  /\ sel # PyNone /\ plot_df # PyNone
  /\ Cardinality(SelectedComplete) > pairplot_rows
  /\ plot_df.n = pairplot_rows
  /\ last_plot # PyNone

\* The frame pd.read_csv returned, before the mapping step.
Loaded == ReadCsv(uploaded.table)

\* The column the derived year is read from under the mapping, by the
\* values it holds in the CSV; Absent when there is none.
YearSource ==
  IF release_col \notin {NoColumn, "release_year"} THEN Loaded.col[release_col]
  ELSE IF "release_year" \in Columns(Loaded) THEN Loaded.col["release_year"]
  ELSE Absent

\* The same for the duration; its alignment runs after the year's, so a
\* duration mapped to release_year reads what the year's alignment left.
DurationSource ==
  IF duration_col \notin {NoColumn, "duration"}
    THEN (IF duration_col = "release_year" THEN YearSource
          ELSE Loaded.col[duration_col])
  ELSE IF "duration" \in Columns(Loaded) THEN Loaded.col["duration"]
  ELSE Absent

AvailableNumeric ==
  {c \in Columns(df_view) :
     /\ df_view.col[c].dtype = "num"
     /\ \E i \in 1..df_view.n : df_view.col[c].v[i] # NA}

InsufficientNotice == "info: No hay suficientes columnas numericas"

\* C9: with fewer than two numeric columns left after discarding the
\* all-missing ones, tab 3 computes no matrix and shows the notice, without
\* an error; a matrix is computed only over two or more such columns.
C9_MatrixNeedsTwoColumns ==
  pc \in {"tab4", "done"} =>
    /\ Cardinality(AvailableNumeric) < 2 =>
         corr = PyNone /\ InsufficientNotice \in shown
    /\ corr # PyNone =>
         /\ Cardinality(AvailableNumeric) >= 2
         /\ {corr.cols[i] : i \in 1..Len(corr.cols)} = AvailableNumeric
         /\ InsufficientNotice \notin shown

\* Two numeric columns of a view with a row, one of them all missing: the
\* notice instead of a matrix.
C9_Witness ==
  /\ pc = "tab4"
  /\ df_view.n = 1
  /\ Len(NumericCols(df_view)) = 2
  /\ Cardinality(AvailableNumeric) = 1
  /\ corr = PyNone
  /\ InsufficientNotice \in shown

LoadedOk == uploaded.k = "file" /\ uploaded.readable

NothingComputed ==
  /\ df = PyNone /\ df_view = PyNone /\ metrics = PyNone /\ counts = PyNone
  /\ sel = PyNone /\ plot_df = PyNone /\ corr = PyNone

\* C10: normalization, the KPIs and the views happen only after a dataset
\* was loaded; without an upload, or with a CSV that cannot be read, a
\* message is shown and the run stops with none of the later steps done.
C10_NothingBeforeLoad ==
  /\ (pc \notin {"start", "load", "stopped"} \/ ~NothingComputed) =>
       LoadedOk /\ data # PyNone
  /\ (~LoadedOk /\ pc # "start" /\ pc # "load") =>
       /\ pc = "stopped"
       /\ data = PyNone /\ NothingComputed
       /\ shown = IF uploaded = PyNone
                    THEN {"warning: Sube un CSV para comenzar"}
                    ELSE {"error: No se pudo leer el CSV"}
  /\ pc = "stopped" => ~LoadedOk

\* The run of an unreadable CSV has stopped on its error message.
C10_Witness ==
  /\ pc = "stopped"
  /\ uploaded = UnreadableFile
  /\ shown = {"error: No se pudo leer el CSV"}
  /\ NothingComputed
====
